---- MODULE Spec2Model ----
(***************************************************************************)
(* Model of src/extract_mdb_constraints.py: the profiler of the tables of  *)
(* two Access databases (main, extract_all_constraints,                    *)
(* analyze_field_values, perform_rule_checks).                             *)
(*                                                                         *)
(* A field value is a record [isNull, text]; a text is a sequence of       *)
(* one-character strings, so that str(), the 'NULL' label and VAL() are    *)
(* computed and not assumed.  Percentages are integers in units of         *)
(* 10^-digits percent (round(x, 2) -> hundredths, round(x, 4) ->           *)
(* ten-thousandths), rounded half-to-even on the exact quotient.           *)
(***************************************************************************)
EXTENDS Integers, Sequences, FiniteSets, TLC

VARIABLES
    pc,             \* position of the single thread of control
    db_idx,         \* main: index in MDB_FILES of the database of this iteration
    all_results,    \* main: the keys of all_results (its values are never read)
    conns,          \* per database: "unopened" | "open" | "closed" (pypyodbc connection)
    store,          \* the tables behind the open connection, in cursor.tables() order
    tie_order,      \* how the store behind the connection orders groups of equal count
    tables,         \* extract_all_constraints: the table names kept
    tbl_idx,        \* extract_all_constraints: number of tables whose iteration began
    database_info,  \* extract_all_constraints: the result tree being built
    table_info,     \* extract_all_constraints: the current table's result
    col_idx,        \* extract_all_constraints: number of columns whose iteration began
    field_name,     \* extract_all_constraints: the column of the current iteration
    field_stats,    \* extract_all_constraints: what analyze_field_values returned
    printed,        \* the enumeration label or "ERROR" last printed for a column
    rule_checks,    \* what perform_rule_checks returned last
    exception       \* the exception that ended the process, or "none"

vars == <<pc, db_idx, all_results, conns, store, tie_order, tables, tbl_idx, database_info,
          table_info, col_idx, field_name, field_stats, printed, rule_checks,
          exception>>

(***************************************************************************)
(* Bounds of the model.                                                    *)
(***************************************************************************)
MaxTables == 2
MaxRows == 3

(***************************************************************************)
(* Program constants.                                                      *)
(***************************************************************************)
MDB_FILES == <<"course", "assessment">>

FIELDS_TO_ENUMERATE_COMPLETELY ==
    {"AGGREGATION_INDEX", "AGGREGATION_TYPE", "NRC_CODE", "NRC_DESC",
     "SUBGROUP_CODE", "SUBGROUP_NAME", "APIB_IND", "NYC_IND", "GRADE_LEVEL",
     "SUBJECT_AREA", "COUNTY_CODE", "COUNTY_NAME"}

FIELDS_TO_ENUMERATE_WITH_LIMIT ==
    {"COURSE_ID", "COURSE_DESC", "STATE_CODE", "ITEM_DESC"}

LIMITED_ENUM_CAP == 500
AUTO_ENUM_MAX == 20
TOP_VALUES == 50
NULL_PCT_DIGITS == 2
RULE_PCT_DIGITS == 4

(***************************************************************************)
(* Values, texts and numbers.                                              *)
(***************************************************************************)
Null == [isNull |-> TRUE, text |-> <<>>]
Txt(s) == [isNull |-> FALSE, text |-> s]

DigitChar == <<"0", "1", "2", "3", "4", "5", "6", "7", "8", "9">>

RECURSIVE Digits(_)
Digits(n) ==
    IF n < 10 THEN <<DigitChar[n + 1]>>
    ELSE Append(Digits(n \div 10), DigitChar[(n % 10) + 1])

Num(n) == Txt(Digits(n))

Min(a, b) == IF a <= b THEN a ELSE b

RECURSIVE Pow10(_)
Pow10(k) == IF k = 0 THEN 1 ELSE 10 * Pow10(k - 1)

\* The integer nearest to num / den (den > 0), a tie going to the even one.
RoundHalfEven(num, den) ==
    LET q == num \div den
        r == num % den
    IN  IF 2 * r < den THEN q
        ELSE IF 2 * r > den THEN q + 1
        ELSE IF q % 2 = 0 THEN q ELSE q + 1

\* round(part / whole * 100, digits), in units of 10^-digits.
RoundedPercent(part, whole, digits) ==
    RoundHalfEven(part * 100 * Pow10(digits), whole)

Put(m, k, v) == [x \in DOMAIN m \cup {k} |-> IF x = k THEN v ELSE m[x]]

Reverse(s) == [i \in 1..Len(s) |-> s[Len(s) + 1 - i]]

(***************************************************************************)
(* The databases the run may meet.  A table is [name, schema, rows,        *)
(* readable]; a row maps each column name to a value.  Column names are    *)
(* written in upper case; Access resolves the lower-case names of the rule *)
(* queries to them.                                                        *)
(***************************************************************************)
Col(name, type) ==
    [column_name |-> name, data_type |-> type, column_size |-> 255, nullable |-> 1]

ColumnNames(schema) == {schema[i].column_name : i \in 1..Len(schema)}

BigRows == LIMITED_ENUM_CAP + 1

\* One column for each side of each threshold of the enumeration policy.
BigTable ==
    [name |-> "BIG",
     readable |-> TRUE,
     schema |-> <<Col("COUNTY_CODE", "VARCHAR"), Col("COURSE_ID", "VARCHAR"),
                  Col("STATE_CODE", "VARCHAR"), Col("LEA_NAME", "VARCHAR"),
                  Col("INST_ID", "VARCHAR"), Col("AGGREGATION_NAME", "VARCHAR")>>,
     rows |-> [i \in 1..BigRows |->
                 [COUNTY_CODE |-> Num(i),
                  COURSE_ID |-> Num(i),
                  STATE_CODE |-> Num(Min(i, LIMITED_ENUM_CAP)),
                  LEA_NAME |-> Num(i % (AUTO_ENUM_MAX + 1)),
                  INST_ID |-> Num(i % (TOP_VALUES + 1)),
                  AGGREGATION_NAME |-> Num(i % AUTO_ENUM_MAX)]]]

\* Nulls, the text 'NULL', a column the store cannot group, a short bounded column.
MixedTable ==
    [name |-> "MIXED",
     readable |-> TRUE,
     schema |-> <<Col("SUBGROUP_NAME", "VARCHAR"), Col("PHOTO", "LONGBINARY"),
                  Col("STATE_CODE", "VARCHAR")>>,
     rows |-> <<[SUBGROUP_NAME |-> Txt(<<"A">>), PHOTO |-> Null,
                 STATE_CODE |-> Txt(<<"N", "Y">>)],
                [SUBGROUP_NAME |-> Txt(<<"N", "U", "L", "L">>), PHOTO |-> Null,
                 STATE_CODE |-> Txt(<<"N", "J">>)],
                [SUBGROUP_NAME |-> Null, PHOTO |-> Null,
                 STATE_CODE |-> Txt(<<"C", "T">>)],
                [SUBGROUP_NAME |-> Txt(<<"A">>), PHOTO |-> Null,
                 STATE_CODE |-> Txt(<<"N", "Y">>)],
                [SUBGROUP_NAME |-> Null, PHOTO |-> Null,
                 STATE_CODE |-> Txt(<<"N", "Y">>)]>>]

EmptyTable ==
    [name |-> "EMPTY",
     readable |-> TRUE,
     schema |-> <<Col("SUBGROUP_CODE", "VARCHAR"), Col("LEA_NAME", "VARCHAR")>>,
     rows |-> <<>>]

\* The fewest rows for which one distinct value among them is less than half
\* of the last digit kept by round(x, 2).
HugeRows == 2 * Pow10(NULL_PCT_DIGITS + 2) + 1

\* One value in every row of a column, and a column holding nothing but nulls.
HugeTable ==
    [name |-> "HUGE",
     readable |-> TRUE,
     schema |-> <<Col("NYC_IND", "VARCHAR"), Col("REMARK", "VARCHAR")>>,
     rows |-> SubSeq([i \in 1..HugeRows |-> [NYC_IND |-> Txt(<<"Y">>), REMARK |-> Null]],
                     1, HugeRows)]

\* A table whose SELECT COUNT(*) the store refuses.
LockedTable ==
    [name |-> "LOCKED",
     readable |-> FALSE,
     schema |-> <<Col("SUBGROUP_CODE", "VARCHAR")>>,
     rows |-> <<>>]

SystemTable ==
    [name |-> "MSysObjects",
     readable |-> FALSE,
     schema |-> <<Col("Id", "INTEGER")>>,
     rows |-> <<>>]

RuleSchema ==
    <<Col("APIB_IND", "VARCHAR"), Col("TESTED_STUDENT_CNT", "VARCHAR"),
      Col("PROFICIENT_STUDENT_CNT", "VARCHAR"), Col("LEVEL1_CNT", "VARCHAR"),
      Col("LEVEL2_CNT", "VARCHAR"), Col("LEVEL3_CNT", "VARCHAR"),
      Col("LEVEL4_CNT", "VARCHAR"), Col("LEVEL5_CNT", "VARCHAR"),
      Col("LEVEL6_CNT", "VARCHAR"), Col("LEVEL7_CNT", "VARCHAR")>>

Dash == Txt(<<"-">>)

RuleRow(ind, tested, prof, l1, l2, l3, l4, l5, l6, l7) ==
    [APIB_IND |-> Txt(ind), TESTED_STUDENT_CNT |-> tested,
     PROFICIENT_STUDENT_CNT |-> prof, LEVEL1_CNT |-> l1, LEVEL2_CNT |-> l2,
     LEVEL3_CNT |-> l3, LEVEL4_CNT |-> l4, LEVEL5_CNT |-> l5, LEVEL6_CNT |-> l6,
     LEVEL7_CNT |-> l7]

\* The two rows of the documented example, then rows with the '-' placeholder.
RuleRowPool ==
    <<RuleRow(<<"A", "P">>, Num(10), Num(5),
              Num(2), Num(3), Num(5), Num(0), Num(0), Num(0), Num(0)),
      RuleRow(<<"I", "B">>, Num(10), Num(4),
              Num(1), Num(1), Num(1), Num(1), Num(1), Num(1), Num(1)),
      RuleRow(<<"A", "P">>, Num(7), Num(4),
              Num(2), Num(2), Dash, Num(3), Num(0), Num(0), Num(0)),
      RuleRow(<<"I", "B">>, Num(3), Num(2),
              Dash, Dash, Dash, Dash, Dash, Dash, Num(3))>>

AssessTable ==
    [name |-> "ASSESS",
     readable |-> TRUE,
     schema |-> RuleSchema,
     rows |-> <<RuleRowPool[1], RuleRowPool[2], RuleRowPool[3]>>]

TablePool == <<BigTable, MixedTable, AssessTable, EmptyTable, LockedTable, HugeTable>>

\* What cursor.tables() may list: the system table, then up to MaxTables
\* different tables of the pool.
TableChoices(k) ==
    {t \in [1..k -> 1..Len(TablePool)] : \A i, j \in 1..k : i # j => t[i] # t[j]}

DbContents ==
    UNION {{<<SystemTable>> \o [i \in 1..k |-> TablePool[s[i]]] : s \in TableChoices(k)} :
             k \in 0..MaxTables}

\* table_name.startswith('MSys')
StartsWithMSys(name) == name \in {"MSysObjects"}

TableNamed(name) ==
    LET i == CHOOSE j \in 1..Len(store) : store[j].name = name IN store[i]

(***************************************************************************)
(* analyze_field_values                                                    *)
(***************************************************************************)
\* GROUP BY [field]: the distinct values in order of first appearance, with
\* the number of rows of each (rows lo..hi, lo <= hi).
RECURSIVE GroupBy(_, _, _, _)
GroupBy(rows, c, lo, hi) ==
    IF lo = hi THEN [order |-> <<rows[lo][c]>>, cnt |-> (rows[lo][c] :> 1)]
    ELSE LET mid == (lo + hi) \div 2
             a == GroupBy(rows, c, lo, mid)
             b == GroupBy(rows, c, mid + 1, hi)
             Fresh(v) == v \notin DOMAIN a.cnt
         IN  [order |-> a.order \o SelectSeq(b.order, Fresh),
              cnt |-> [v \in DOMAIN a.cnt \cup DOMAIN b.cnt |->
                         (IF v \in DOMAIN a.cnt THEN a.cnt[v] ELSE 0)
                       + (IF v \in DOMAIN b.cnt THEN b.cnt[v] ELSE 0)]]

\* How the store orders groups of equal count: as first met, or the reverse.
TieOrders == {"asc", "desc"}

MoreRows(a, b) == a[2] > b[2]

\* Variant: the query has no ORDER BY, the groups come as first met.
QueryValuesUnordered(rows, c, tie) ==
    IF Len(rows) = 0 THEN <<>>
    ELSE LET g == GroupBy(rows, c, 1, Len(rows))
             groups == [i \in 1..Len(g.order) |-> <<g.order[i], g.cnt[g.order[i]]>>]
         IN  IF tie = "asc" THEN groups ELSE Reverse(groups)

\* ... GROUP BY [field] ORDER BY COUNT(*) DESC, then fetchall()
QueryValues(rows, c, tie) ==
    IF Len(rows) = 0 THEN <<>>
    ELSE LET g == GroupBy(rows, c, 1, Len(rows))
             groups == [i \in 1..Len(g.order) |-> <<g.order[i], g.cnt[g.order[i]]>>]
         IN  SortSeq(IF tie = "asc" THEN groups ELSE Reverse(groups), MoreRows)

\* SELECT COUNT([field]): the rows whose value is not null.
CountNonNull(rows, c) == Cardinality({i \in 1..Len(rows) : ~rows[i][c].isNull})

\* The store cannot group an OLE column: the GROUP BY query raises.
QueryValuesFails(col_info) == col_info.data_type = "LONGBINARY"

\* str(row[0]) if row[0] is not None else 'NULL'
Label(v) == IF v.isNull THEN <<"N", "U", "L", "L">> ELSE v.text

analyze_field_values(table, col_info, tie) ==
    IF QueryValuesFails(col_info) THEN [error |-> "cannot group"]
    ELSE LET total_rows == Len(table.rows)
             non_null_count == CountNonNull(table.rows, col_info.column_name)
             values_distribution == QueryValues(table.rows, col_info.column_name, tie)
         IN  [total_rows |-> total_rows,
              non_null_count |-> non_null_count,
              null_count |-> total_rows - non_null_count,
              distinct_count |-> Len(values_distribution),
              values_distribution |->
                  [i \in 1..Len(values_distribution) |->
                     <<Label(values_distribution[i][1]), values_distribution[i][2]>>]]

(***************************************************************************)
(* extract_all_constraints: the analysis of one column                     *)
(***************************************************************************)
\* Variants of Enumeration with one slip each; the policy theorems tell them apart.
\* The size tests come before the membership in the full-enumeration list.
EnumerationSizeFirst(name, distinct_count, values_distribution) ==
    IF distinct_count <= AUTO_ENUM_MAX
    THEN [key |-> "all_values", values |-> values_distribution, label |-> "AUTO_SMALL"]
    ELSE IF name \in FIELDS_TO_ENUMERATE_WITH_LIMIT /\ distinct_count <= LIMITED_ENUM_CAP
    THEN [key |-> "all_values", values |-> values_distribution, label |-> "LIMITED"]
    ELSE IF name \in FIELDS_TO_ENUMERATE_COMPLETELY /\ distinct_count <= LIMITED_ENUM_CAP
    THEN [key |-> "all_values", values |-> values_distribution, label |-> "FULL"]
    ELSE [key |-> "top_50_values",
          values |-> SubSeq(values_distribution, 1,
                            Min(TOP_VALUES, Len(values_distribution))),
          label |-> "TOP50"]

\* distinct_count < 20 in place of distinct_count <= 20.
EnumerationStrictAuto(name, distinct_count, values_distribution) ==
    IF name \in FIELDS_TO_ENUMERATE_COMPLETELY
    THEN [key |-> "all_values", values |-> values_distribution, label |-> "FULL"]
    ELSE IF name \in FIELDS_TO_ENUMERATE_WITH_LIMIT /\ distinct_count <= LIMITED_ENUM_CAP
    THEN [key |-> "all_values", values |-> values_distribution, label |-> "LIMITED"]
    ELSE IF distinct_count < AUTO_ENUM_MAX
    THEN [key |-> "all_values", values |-> values_distribution, label |-> "AUTO_SMALL"]
    ELSE [key |-> "top_50_values",
          values |-> SubSeq(values_distribution, 1,
                            Min(TOP_VALUES, Len(values_distribution))),
          label |-> "TOP50"]

\* distinct_count < 500 in place of distinct_count <= 500.
EnumerationStrictCap(name, distinct_count, values_distribution) ==
    IF name \in FIELDS_TO_ENUMERATE_COMPLETELY
    THEN [key |-> "all_values", values |-> values_distribution, label |-> "FULL"]
    ELSE IF name \in FIELDS_TO_ENUMERATE_WITH_LIMIT /\ distinct_count < LIMITED_ENUM_CAP
    THEN [key |-> "all_values", values |-> values_distribution, label |-> "LIMITED"]
    ELSE IF distinct_count <= AUTO_ENUM_MAX
    THEN [key |-> "all_values", values |-> values_distribution, label |-> "AUTO_SMALL"]
    ELSE [key |-> "top_50_values",
          values |-> SubSeq(values_distribution, 1,
                            Min(TOP_VALUES, Len(values_distribution))),
          label |-> "TOP50"]

\* The branch taken at lines 378-393: the key written, its value, the label printed.
Enumeration(name, distinct_count, values_distribution) ==
    IF name \in FIELDS_TO_ENUMERATE_COMPLETELY
    THEN [key |-> "all_values", values |-> values_distribution, label |-> "FULL"]
    ELSE IF name \in FIELDS_TO_ENUMERATE_WITH_LIMIT /\ distinct_count <= LIMITED_ENUM_CAP
    THEN [key |-> "all_values", values |-> values_distribution, label |-> "LIMITED"]
    ELSE IF distinct_count <= AUTO_ENUM_MAX
    THEN [key |-> "all_values", values |-> values_distribution, label |-> "AUTO_SMALL"]
    ELSE [key |-> "top_50_values",
          values |-> SubSeq(values_distribution, 1,
                            Min(TOP_VALUES, Len(values_distribution))),
          label |-> "TOP50"]

\* The dictionary built at lines 365-375; the division of line 372 raises
\* ZeroDivisionError when total_rows is 0.
NullPercentageRaises(stats) == stats.total_rows = 0

\* Variant: the share is taken of all the rows of the table.
DistinctPercentageOfRows(stats) ==
    IF stats.total_rows > 0
    THEN RoundedPercent(stats.distinct_count, stats.total_rows, NULL_PCT_DIGITS)
    ELSE 0

DistinctPercentage(stats) ==
    IF stats.non_null_count > 0
    THEN RoundedPercent(stats.distinct_count, stats.non_null_count, NULL_PCT_DIGITS)
    ELSE 0

FieldAnalysis(col_info, stats) ==
    LET e == Enumeration(col_info.column_name, stats.distinct_count,
                         stats.values_distribution)
    IN  [data_type |-> col_info.data_type,
         column_size |-> col_info.column_size,
         nullable |-> col_info.nullable,
         total_rows |-> stats.total_rows,
         non_null_count |-> stats.non_null_count,
         null_count |-> stats.null_count,
         null_percentage |->
             RoundedPercent(stats.null_count, stats.total_rows, NULL_PCT_DIGITS),
         distinct_count |-> stats.distinct_count,
         distinct_percentage |-> DistinctPercentage(stats)]
        @@ (e.key :> e.values)

(***************************************************************************)
(* perform_rule_checks                                                     *)
(***************************************************************************)
IsDigit(ch) == \E d \in 1..10 : DigitChar[d] = ch

DigitOf(ch) == (CHOOSE d \in 1..10 : DigitChar[d] = ch) - 1

RECURSIVE ValFrom(_, _, _)
ValFrom(text, i, acc) ==
    IF i > Len(text) \/ ~IsDigit(text[i]) THEN acc
    ELSE ValFrom(text, i + 1, acc * 10 + DigitOf(text[i]))

\* VAL([c]): the number the text begins with, 0 when it begins with none.
Val(v) == ValFrom(v.text, 1, 0)

\* Variant: the '-' placeholder is counted as one student.
LvlPlaceholderCounts(v) == IF v = Dash THEN 1 ELSE Val(v)

\* lvl: IIF([c]='-', 0, VAL([c]))
Lvl(v) == IF v = Dash THEN 0 ELSE Val(v)

LevelsSum(row) ==
    Lvl(row["LEVEL1_CNT"]) + Lvl(row["LEVEL2_CNT"]) + Lvl(row["LEVEL3_CNT"])
    + Lvl(row["LEVEL4_CNT"]) + Lvl(row["LEVEL5_CNT"]) + Lvl(row["LEVEL6_CNT"])
    + Lvl(row["LEVEL7_CNT"])

ApSum(row) ==
    Lvl(row["LEVEL3_CNT"]) + Lvl(row["LEVEL4_CNT"]) + Lvl(row["LEVEL5_CNT"])

IbSum(row) ==
    Lvl(row["LEVEL4_CNT"]) + Lvl(row["LEVEL5_CNT"]) + Lvl(row["LEVEL6_CNT"])
    + Lvl(row["LEVEL7_CNT"])

LevelsColumns ==
    {"TESTED_STUDENT_CNT", "LEVEL1_CNT", "LEVEL2_CNT", "LEVEL3_CNT", "LEVEL4_CNT",
     "LEVEL5_CNT", "LEVEL6_CNT", "LEVEL7_CNT"}

ApColumns ==
    {"APIB_IND", "PROFICIENT_STUDENT_CNT", "LEVEL3_CNT", "LEVEL4_CNT", "LEVEL5_CNT"}

IbColumns ==
    {"APIB_IND", "PROFICIENT_STUDENT_CNT", "LEVEL4_CNT", "LEVEL5_CNT", "LEVEL6_CNT",
     "LEVEL7_CNT"}

\* A query naming a column the table lacks raises.
QueryRaises(table, columns) == ~(columns \subseteq ColumnNames(table.schema))

\* round(mismatch / total * 100, 4) if total else 0.0
MismatchPercentage(mismatch, total) ==
    IF total # 0 THEN RoundedPercent(mismatch, total, RULE_PCT_DIGITS) ELSE 0

CheckResult(total, mismatch) ==
    [total_rows |-> total,
     mismatch_rows |-> mismatch,
     mismatch_percentage |-> MismatchPercentage(mismatch, total)]

\* One try block: the key with its result, or the key's _error with the message.
Attempt(key, error_key, raises, result) ==
    IF raises THEN error_key :> "query failed" ELSE key :> result

LevelsSumCheck(table) ==
    LET all == 1..Len(table.rows) IN
    Attempt("levels_sum_check", "levels_sum_check_error",
            QueryRaises(table, LevelsColumns),
            CheckResult(Cardinality(all),
                        Cardinality({i \in all :
                            Val(table.rows[i]["TESTED_STUDENT_CNT"])
                                # LevelsSum(table.rows[i])})))

\* Variant: the rows of the whole table are counted as the AP population.
ApProficientCheckAllRows(table) ==
    LET ap == {i \in 1..Len(table.rows) : table.rows[i]["APIB_IND"] = Txt(<<"A", "P">>)} IN
    Attempt("ap_proficient_check", "ap_proficient_check_error",
            QueryRaises(table, ApColumns),
            CheckResult(Len(table.rows),
                        Cardinality({i \in ap :
                            Val(table.rows[i]["PROFICIENT_STUDENT_CNT"])
                                # ApSum(table.rows[i])})))

ApProficientCheck(table) ==
    LET ap == {i \in 1..Len(table.rows) : table.rows[i]["APIB_IND"] = Txt(<<"A", "P">>)} IN
    Attempt("ap_proficient_check", "ap_proficient_check_error",
            QueryRaises(table, ApColumns),
            CheckResult(Cardinality(ap),
                        Cardinality({i \in ap :
                            Val(table.rows[i]["PROFICIENT_STUDENT_CNT"])
                                # ApSum(table.rows[i])})))

IbProficientCheck(table) ==
    LET ib == {i \in 1..Len(table.rows) : table.rows[i]["APIB_IND"] = Txt(<<"I", "B">>)} IN
    Attempt("ib_proficient_check", "ib_proficient_check_error",
            QueryRaises(table, IbColumns),
            CheckResult(Cardinality(ib),
                        Cardinality({i \in ib :
                            Val(table.rows[i]["PROFICIENT_STUDENT_CNT"])
                                # IbSum(table.rows[i])})))

\* Variant: one try block around the three rules, the first failure ends them.
perform_rule_checks_one_try(table, is_assessment) ==
    IF ~is_assessment THEN <<>>
    ELSE IF QueryRaises(table, LevelsColumns) THEN LevelsSumCheck(table)
    ELSE IF QueryRaises(table, ApColumns)
    THEN LevelsSumCheck(table) @@ ApProficientCheck(table)
    ELSE LevelsSumCheck(table) @@ ApProficientCheck(table) @@ IbProficientCheck(table)

perform_rule_checks(table, is_assessment) ==
    IF ~is_assessment THEN <<>>
    ELSE LevelsSumCheck(table) @@ ApProficientCheck(table) @@ IbProficientCheck(table)

(***************************************************************************)
(* main and extract_all_constraints                                        *)
(***************************************************************************)
NoInfo == [database_name |-> "", tables |-> <<>>]

NoTable ==
    [row_count |-> 0, column_count |-> 0, schema |-> <<>>, field_analysis |-> <<>>,
     constraints |-> [primary_keys |-> <<>>, foreign_keys |-> <<>>, indexes |-> <<>>]]

db_name == MDB_FILES[db_idx]

CurrentTable == TableNamed(tables[tbl_idx])

Init ==
    /\ pc = "main"
    /\ db_idx = 0
    /\ all_results = {}
    /\ conns = [d \in {MDB_FILES[i] : i \in 1..Len(MDB_FILES)} |-> "unopened"]
    /\ store = <<>>
    /\ tie_order = "asc"
    /\ tables = <<>>
    /\ tbl_idx = 0
    /\ database_info = NoInfo
    /\ table_info = NoTable
    /\ col_idx = 0
    /\ field_name = ""
    /\ field_stats = <<>>
    /\ printed = ""
    /\ rule_checks = <<>>
    /\ exception = "none"

\* The uncaught exception leaves main: nothing after it runs.
Raise(kind) ==
    /\ pc' = "crashed"
    /\ exception' = kind

\* main, lines 548-551: the path does not exist.
MainSkipMissing ==
    /\ pc = "main"
    /\ db_idx < Len(MDB_FILES)
    /\ db_idx' = db_idx + 1
    /\ UNCHANGED <<pc, all_results, conns, store, tie_order, tables, tbl_idx, database_info,
                   table_info, col_idx, field_name, field_stats, printed,
                   rule_checks, exception>>

\* main, line 553: the path exists, extract_all_constraints is called.
MainExtract ==
    /\ pc = "main"
    /\ db_idx < Len(MDB_FILES)
    /\ db_idx' = db_idx + 1
    /\ pc' = "connect"
    /\ UNCHANGED <<all_results, conns, store, tie_order, tables, tbl_idx, database_info,
                   table_info, col_idx, field_name, field_stats, printed,
                   rule_checks, exception>>

\* connect_to_mdb returns None, extract_all_constraints returns None, main goes on.
ConnectFails ==
    /\ pc = "connect"
    /\ pc' = "main"
    /\ UNCHANGED <<db_idx, all_results, conns, store, tie_order, tables, tbl_idx, database_info,
                   table_info, col_idx, field_name, field_stats, printed,
                   rule_checks, exception>>

\* Lines 306-325: the connection opens, the tables are listed.
ConnectOk ==
    /\ pc = "connect"
    /\ \E content \in DbContents :
          /\ store' = content
          /\ tables' = LET Kept(t) == ~StartsWithMSys(t.name)
                           kept == SelectSeq(content, Kept)
                       IN  [i \in 1..Len(kept) |-> kept[i].name]
    /\ tie_order' \in TieOrders
    /\ conns' = [conns EXCEPT ![db_name] = "open"]
    /\ database_info' = [database_name |-> db_name, tables |-> <<>>]
    /\ tbl_idx' = 0
    /\ pc' = "table_loop"
    /\ UNCHANGED <<db_idx, all_results, table_info, col_idx, field_name, field_stats,
                   printed, rule_checks, exception>>

\* Lines 327-348: the schema, the row count and the constraints of the next table.
BeginTable ==
    /\ pc = "table_loop"
    /\ tbl_idx < Len(tables)
    /\ TableNamed(tables[tbl_idx + 1]).readable
    /\ tbl_idx' = tbl_idx + 1
    /\ LET t == TableNamed(tables[tbl_idx + 1]) IN
          table_info' = [row_count |-> Len(t.rows),
                         column_count |-> Len(t.schema),
                         schema |-> t.schema,
                         field_analysis |-> <<>>,
                         constraints |-> [primary_keys |-> <<>>, foreign_keys |-> <<>>,
                                          indexes |-> <<>>]]
    /\ col_idx' = 0
    /\ pc' = "field_loop"
    /\ UNCHANGED <<db_idx, all_results, conns, store, tie_order, tables, database_info,
                   field_name, field_stats, printed, rule_checks, exception>>

\* Lines 335-336: cursor.execute raises, and nothing catches it.
BeginTableRaises ==
    /\ pc = "table_loop"
    /\ tbl_idx < Len(tables)
    /\ ~TableNamed(tables[tbl_idx + 1]).readable
    /\ tbl_idx' = tbl_idx + 1
    /\ Raise("pypyodbc.Error")
    /\ UNCHANGED <<db_idx, all_results, conns, store, tie_order, tables, database_info,
                   table_info, col_idx, field_name, field_stats, printed, rule_checks>>

\* Lines 351-397, one iteration: the profile, then the analysis stored, the
\* error printed, or ZeroDivisionError raised.
AnalyzeField ==
    /\ pc = "field_loop"
    /\ col_idx < Len(table_info.schema)
    /\ col_idx' = col_idx + 1
    /\ LET col_info == table_info.schema[col_idx + 1] IN
       \E stats \in {analyze_field_values(CurrentTable, col_info, tie_order)} :
              /\ field_name' = col_info.column_name
              /\ field_stats' = stats
              /\ IF "error" \in DOMAIN stats
                 THEN /\ printed' = "ERROR"
                      /\ UNCHANGED <<pc, table_info, exception>>
                 ELSE IF NullPercentageRaises(stats)
                 THEN /\ Raise("ZeroDivisionError")
                      /\ UNCHANGED <<printed, table_info>>
                 ELSE /\ printed' = Enumeration(col_info.column_name, stats.distinct_count,
                                                stats.values_distribution).label
                      /\ table_info' =
                            [table_info EXCEPT !.field_analysis =
                                Put(@, col_info.column_name, FieldAnalysis(col_info, stats))]
                      /\ UNCHANGED <<pc, exception>>
    /\ UNCHANGED <<db_idx, all_results, conns, store, tie_order, tables, tbl_idx, database_info,
                   rule_checks>>

\* Lines 399-404: the rule checks, then the table's result joins the tree.
RuleChecks ==
    /\ pc = "field_loop"
    /\ col_idx = Len(table_info.schema)
    /\ LET rc == perform_rule_checks(CurrentTable, db_name = "assessment")
           info == IF rc # <<>> THEN table_info @@ [rule_checks |-> rc] ELSE table_info
       IN  /\ rule_checks' = rc
           /\ table_info' = info
           /\ database_info' =
                 [database_info EXCEPT !.tables = Put(@, tables[tbl_idx], info)]
    /\ pc' = "table_loop"
    /\ UNCHANGED <<db_idx, all_results, conns, store, tie_order, tables, tbl_idx, col_idx,
                   field_name, field_stats, printed, exception>>

\* Lines 406-407 and 554-555: the connection is closed, the tree returned and
\* kept in all_results; the locals of extract_all_constraints are gone.
CloseAndReturn ==
    /\ pc = "table_loop"
    /\ tbl_idx = Len(tables)
    /\ conns' = [conns EXCEPT ![db_name] = "closed"]
    /\ all_results' = all_results \cup {db_name}
    /\ store' = <<>>
    /\ tie_order' = "asc"
    /\ tables' = <<>>
    /\ tbl_idx' = 0
    /\ table_info' = NoTable
    /\ col_idx' = 0
    /\ field_name' = ""
    /\ field_stats' = <<>>
    /\ printed' = ""
    /\ rule_checks' = <<>>
    /\ pc' = "save"
    /\ UNCHANGED <<db_idx, database_info, exception>>

\* Line 556: save_results(database_info); main does not read the tree again.
SaveResults ==
    /\ pc = "save"
    /\ database_info' = NoInfo
    /\ pc' = "main"
    /\ UNCHANGED <<db_idx, all_results, conns, store, tie_order, tables, tbl_idx, table_info,
                   col_idx, field_name, field_stats, printed, rule_checks, exception>>

\* Lines 558-566: the loop is over.
MainDone ==
    /\ pc = "main"
    /\ db_idx = Len(MDB_FILES)
    /\ pc' = "done"
    /\ UNCHANGED <<db_idx, all_results, conns, store, tie_order, tables, tbl_idx, database_info,
                   table_info, col_idx, field_name, field_stats, printed,
                   rule_checks, exception>>

Next ==
    \/ MainSkipMissing
    \/ MainExtract
    \/ ConnectFails
    \/ ConnectOk
    \/ BeginTable
    \/ BeginTableRaises
    \/ AnalyzeField
    \/ RuleChecks
    \/ CloseAndReturn
    \/ SaveResults
    \/ MainDone

Spec == Init /\ [][Next]_vars

(***************************************************************************)
(* perform_rule_checks called on its own, on every table of up to MaxRows  *)
(* rows of the pool, under each schema.                                    *)
(***************************************************************************)
DropColumn(schema, name) ==
    LET Other(c) == c.column_name # name IN SelectSeq(schema, Other)

RuleSchemas ==
    {RuleSchema, DropColumn(RuleSchema, "LEVEL1_CNT"), DropColumn(RuleSchema, "APIB_IND"),
     DropColumn(RuleSchema, "LEVEL7_CNT"), DropColumn(RuleSchema, "LEVEL3_CNT")}

RuleTables ==
    UNION {{[name |-> "RULES",
             readable |-> TRUE,
             schema |-> schema,
             rows |-> [i \in 1..k |->
                         [c \in ColumnNames(schema) |-> RuleRowPool[s[i]][c]]]] :
              s \in [1..k -> 1..Len(RuleRowPool)], schema \in RuleSchemas} :
           k \in 0..MaxRows}

RuleInit ==
    /\ pc = "rule_call"
    /\ db_idx \in 1..Len(MDB_FILES)
    /\ all_results = {}
    /\ conns = [d \in {MDB_FILES[i] : i \in 1..Len(MDB_FILES)} |->
                  IF d = db_name THEN "open" ELSE "unopened"]
    /\ \E t \in RuleTables : store = <<t>>
    /\ tie_order = "asc"
    /\ tables = <<"RULES">>
    /\ tbl_idx = 1
    /\ database_info = [database_name |-> db_name, tables |-> <<>>]
    /\ table_info = NoTable
    /\ col_idx = 0
    /\ field_name = ""
    /\ field_stats = <<>>
    /\ printed = ""
    /\ rule_checks = <<>>
    /\ exception = "none"

\* rule_checks = perform_rule_checks(conn, table_name, is_assessment=...)
CallRuleChecks ==
    /\ pc = "rule_call"
    /\ rule_checks' = perform_rule_checks(CurrentTable, db_name = "assessment")
    /\ pc' = "rule_returned"
    /\ UNCHANGED <<db_idx, all_results, conns, store, tie_order, tables, tbl_idx, database_info,
                   table_info, col_idx, field_name, field_stats, printed, exception>>

RuleSpec == RuleInit /\ [][CallRuleChecks]_vars

(***************************************************************************)
(* Properties                                                              *)
(***************************************************************************)
\* The column of the current iteration was profiled without error: field_stats
\* is its profile and table_info the result of its table.
Profiled ==
    /\ pc \in {"field_loop", "crashed"}
    /\ (pc = "crashed" => exception = "ZeroDivisionError")
    /\ col_idx > 0
    /\ field_name = table_info.schema[col_idx].column_name
    /\ "error" \notin DOMAIN field_stats

\* ... and its iteration went on to the enumeration decision of lines 378-393
\* (a table without rows never does: line 372 raises first, see C9).
JustAnalyzed == Profiled /\ pc = "field_loop"

CurrentAnalysis == table_info.field_analysis[field_name]

DistinctValues(rows, c) == Cardinality({rows[i][c] : i \in 1..Len(rows)})

IsDescending(dist) == \A i \in 1..(Len(dist) - 1) : dist[i][2] >= dist[i + 1][2]

\* The sum of the counts of the entries lo..hi of a distribution.
RECURSIVE SumCounts(_, _, _)
SumCounts(dist, lo, hi) ==
    IF lo > hi THEN 0
    ELSE IF lo = hi THEN dist[lo][2]
    ELSE LET mid == (lo + hi) \div 2
         IN  SumCounts(dist, lo, mid) + SumCounts(dist, mid + 1, hi)

\* C1: a column named in FIELDS_TO_ENUMERATE_COMPLETELY whose profile succeeded
\* keeps, under the key all_values, the whole profiled distribution, one entry
\* for every distinct value of the column and all rows counted, whatever the
\* number of distinct values; it never gets the key top_50_values.  The same
\* holds of every such column of every table already in the result tree.
C1_FullEnumerationKeepsAll ==
    /\ (JustAnalyzed /\ field_name \in FIELDS_TO_ENUMERATE_COMPLETELY) =>
          /\ field_name \in DOMAIN table_info.field_analysis
          /\ DOMAIN CurrentAnalysis \cap {"all_values", "top_50_values"} = {"all_values"}
          /\ CurrentAnalysis["all_values"] = field_stats.values_distribution
          /\ Len(CurrentAnalysis["all_values"]) = DistinctValues(CurrentTable.rows, field_name)
          /\ SumCounts(CurrentAnalysis["all_values"], 1, Len(CurrentAnalysis["all_values"]))
                = Len(CurrentTable.rows)
          /\ printed = "FULL"
    /\ \A t \in DOMAIN database_info.tables :
          \A f \in DOMAIN database_info.tables[t].field_analysis
                      \cap FIELDS_TO_ENUMERATE_COMPLETELY :
             LET fa == database_info.tables[t].field_analysis[f] IN
             /\ "top_50_values" \notin DOMAIN fa
             /\ "all_values" \in DOMAIN fa
             /\ Len(fa["all_values"]) = fa.distinct_count

\* C1 witness: a full-enumeration column with more than 500 distinct values has
\* been analysed and all of them are kept.
C1_Witness ==
    /\ JustAnalyzed
    /\ field_name \in FIELDS_TO_ENUMERATE_COMPLETELY
    /\ field_stats.distinct_count > LIMITED_ENUM_CAP
    /\ Len(CurrentAnalysis["all_values"]) = field_stats.distinct_count

InNeitherList(name) ==
    name \notin FIELDS_TO_ENUMERATE_COMPLETELY \cup FIELDS_TO_ENUMERATE_WITH_LIMIT

\* C2 as stated: a column in neither list with 21 distinct values keeps exactly
\* 50 entries under top_50_values.
C2_AsStated ==
    (JustAnalyzed /\ InNeitherList(field_name) /\ field_stats.distinct_count = AUTO_ENUM_MAX + 1)
        => /\ "top_50_values" \in DOMAIN CurrentAnalysis
           /\ Len(CurrentAnalysis["top_50_values"]) = TOP_VALUES

\* C2 amended: a column in neither list with more than 20 distinct values keeps,
\* under top_50_values and the TOP50 label, the first min(50, distinct count)
\* entries of the distribution (so all 21 when there are 21); with at most 20
\* (so with 20) it keeps the whole distribution under all_values and the
\* AUTO_SMALL label.
C2_FallbackBoundary ==
    (JustAnalyzed /\ InNeitherList(field_name)) =>
        LET dist == field_stats.values_distribution
            n == field_stats.distinct_count
        IN  /\ field_name \in DOMAIN table_info.field_analysis
            /\ n = DistinctValues(CurrentTable.rows, field_name)
            /\ IF n <= AUTO_ENUM_MAX
               THEN /\ DOMAIN CurrentAnalysis \cap {"all_values", "top_50_values"}
                          = {"all_values"}
                    /\ CurrentAnalysis["all_values"] = dist
                    /\ Len(CurrentAnalysis["all_values"]) = n
                    /\ printed = "AUTO_SMALL"
               ELSE /\ DOMAIN CurrentAnalysis \cap {"all_values", "top_50_values"}
                          = {"top_50_values"}
                    /\ Len(CurrentAnalysis["top_50_values"]) = Min(TOP_VALUES, n)
                    /\ \A i \in 1..Min(TOP_VALUES, n) :
                          CurrentAnalysis["top_50_values"][i] = dist[i]
                    /\ IsDescending(dist)
                    /\ printed = "TOP50"

\* C2 witness: a column in neither list with 21 distinct values was analysed and
\* its 21 entries are kept under top_50_values.
C2_Witness ==
    /\ JustAnalyzed
    /\ InNeitherList(field_name)
    /\ field_stats.distinct_count = AUTO_ENUM_MAX + 1
    /\ "top_50_values" \in DOMAIN CurrentAnalysis
    /\ Len(CurrentAnalysis["top_50_values"]) = AUTO_ENUM_MAX + 1

\* C3: a column named in FIELDS_TO_ENUMERATE_WITH_LIMIT and not in the full
\* list keeps the whole distribution (at most 500 entries) when it has at most
\* 500 distinct values, and the first 50 entries of the descending distribution
\* when it has more; nothing of the table but the column's name and distinct
\* count enters the decision.
C3_BoundedEnumeration ==
    (JustAnalyzed /\ field_name \in FIELDS_TO_ENUMERATE_WITH_LIMIT
                  /\ field_name \notin FIELDS_TO_ENUMERATE_COMPLETELY) =>
        LET dist == field_stats.values_distribution
            n == field_stats.distinct_count
        IN  /\ field_name \in DOMAIN table_info.field_analysis
            /\ n = DistinctValues(CurrentTable.rows, field_name)
            /\ IF n <= LIMITED_ENUM_CAP
               THEN /\ DOMAIN CurrentAnalysis \cap {"all_values", "top_50_values"}
                          = {"all_values"}
                    /\ CurrentAnalysis["all_values"] = dist
                    /\ Len(CurrentAnalysis["all_values"]) <= LIMITED_ENUM_CAP
               ELSE /\ DOMAIN CurrentAnalysis \cap {"all_values", "top_50_values"}
                          = {"top_50_values"}
                    /\ Len(CurrentAnalysis["top_50_values"]) = TOP_VALUES
                    /\ \A i \in 1..TOP_VALUES :
                          CurrentAnalysis["top_50_values"][i] = dist[i]
                    /\ IsDescending(dist)

\* C3 witness: a bounded-list column with more than 500 distinct values was
\* analysed and 50 entries are kept.
C3_Witness ==
    /\ JustAnalyzed
    /\ field_name \in FIELDS_TO_ENUMERATE_WITH_LIMIT
    /\ field_stats.distinct_count > LIMITED_ENUM_CAP
    /\ Len(CurrentAnalysis["top_50_values"]) = TOP_VALUES

RunEnded == pc \in {"done", "crashed"}

\* C4 as stated: no failure of a column or a table ends the run; when the run
\* stops, every database of MDB_FILES has had its iteration and every table
\* listed for the database last opened is in its result tree.
C4_FailureContained ==
    RunEnded =>
        /\ exception = "none"
        /\ db_idx = Len(MDB_FILES)
        /\ \A i \in 1..Len(tables) : tables[i] \in DOMAIN database_info.tables

\* C5 as stated: in every table's result in the tree, and so in what is handed
\* to save_results, each column of the schema has an entry in field_analysis,
\* its analysis or its error.
C5_ErrorsInline ==
    \A t \in DOMAIN database_info.tables :
        ColumnNames(database_info.tables[t].schema)
            \subseteq DOMAIN database_info.tables[t].field_analysis

\* C6 as stated: when the run stops, no connection that was opened is still open.
C6_ConnectionsClosed ==
    RunEnded => \A d \in DOMAIN conns : conns[d] # "open"

\* C9 as stated: a column profiled without error, also one of a table without
\* rows, has its analysis in field_analysis, with a null percentage between 0
\* and 100 that is 0 when the table has no rows.
C9_NullPercentageTotal ==
    Profiled =>
        /\ field_name \in DOMAIN table_info.field_analysis
        /\ CurrentAnalysis.null_percentage >= 0
        /\ CurrentAnalysis.null_percentage <= 100 * Pow10(NULL_PCT_DIGITS)
        /\ (field_stats.total_rows = 0 => CurrentAnalysis.null_percentage = 0)

Returned == pc = "rule_returned"

RuleKeys == {"levels_sum_check", "ap_proficient_check", "ib_proficient_check"}

ErrorKey(k) ==
    CASE k = "levels_sum_check" -> "levels_sum_check_error"
      [] k = "ap_proficient_check" -> "ap_proficient_check_error"
      [] k = "ib_proficient_check" -> "ib_proficient_check_error"

ColumnsOf(k) ==
    CASE k = "levels_sum_check" -> LevelsColumns
      [] k = "ap_proficient_check" -> ApColumns
      [] k = "ib_proficient_check" -> IbColumns

\* C7: perform_rule_checks on a table of the assessment database returns, never
\* raises, and its mapping holds for each of the three rules exactly one of the
\* rule's key and the rule's _error key and nothing else; a rule has its result
\* key exactly when the table has the columns its own queries name, whatever
\* happened to the rules before it.
C7_RuleFaultIsolation ==
    (Returned /\ db_name = "assessment") =>
        /\ exception = "none"
        /\ DOMAIN rule_checks \subseteq RuleKeys \cup {ErrorKey(k) : k \in RuleKeys}
        /\ \A k \in RuleKeys :
              /\ (k \in DOMAIN rule_checks) # (ErrorKey(k) \in DOMAIN rule_checks)
              /\ (k \in DOMAIN rule_checks)
                    <=> (ColumnsOf(k) \subseteq ColumnNames(CurrentTable.schema))

\* C7 witness: the levels-sum rule failed and the AP and IB rules, attempted
\* after it, gave their results.
C7_Witness ==
    /\ Returned
    /\ db_name = "assessment"
    /\ "levels_sum_check_error" \in DOMAIN rule_checks
    /\ "ap_proficient_check" \in DOMAIN rule_checks
    /\ "ib_proficient_check" \in DOMAIN rule_checks

\* The rows a rule is about.
Population(k, table) ==
    CASE k = "levels_sum_check" -> 1..Len(table.rows)
      [] k = "ap_proficient_check" ->
            {i \in 1..Len(table.rows) : table.rows[i]["APIB_IND"].text = <<"A", "P">>}
      [] k = "ib_proficient_check" ->
            {i \in 1..Len(table.rows) : table.rows[i]["APIB_IND"].text = <<"I", "B">>}

PercentUnit == 100 * Pow10(RULE_PCT_DIGITS)

Abs(x) == IF x < 0 THEN -x ELSE x

\* C8 as stated: each rule's mismatch_percentage is exactly mismatch_rows /
\* total_rows x 100 over the rule's own rows, and 0.0 when it has no rows.
C8_AsStated ==
    (Returned /\ db_name = "assessment") =>
        \A k \in RuleKeys \cap DOMAIN rule_checks :
            LET r == rule_checks[k] IN
            /\ r.total_rows = Cardinality(Population(k, CurrentTable))
            /\ IF r.total_rows = 0 THEN r.mismatch_percentage = 0
               ELSE r.mismatch_percentage * r.total_rows = r.mismatch_rows * PercentUnit

\* C8 amended: each rule whose columns the table has gives a result, not an
\* error; its total_rows is the number of the rule's own rows (all rows, the
\* rows with indicator 'AP', the rows with indicator 'IB'), its mismatch_rows
\* is at most that, and its mismatch_percentage is mismatch_rows / total_rows
\* x 100 rounded to 4 decimal places (within half of 0.0001 of it), and 0.0
\* when the rule has no rows.
C8_RulePercentage ==
    (Returned /\ db_name = "assessment") =>
        \A k \in RuleKeys :
            /\ (ColumnsOf(k) \subseteq ColumnNames(CurrentTable.schema))
                  => k \in DOMAIN rule_checks
            /\ k \in DOMAIN rule_checks =>
                  LET r == rule_checks[k] IN
                  /\ r.total_rows = Cardinality(Population(k, CurrentTable))
                  /\ r.mismatch_rows >= 0
                  /\ r.mismatch_rows <= r.total_rows
                  /\ IF r.total_rows = 0 THEN r.mismatch_percentage = 0
                     ELSE 2 * Abs(r.mismatch_percentage * r.total_rows
                                    - r.mismatch_rows * PercentUnit) <= r.total_rows

\* C8 witness: one of three rows breaks the levels sum (33.3333 percent) and no
\* row has the indicator 'AP', whose rule still gives 0.0.
C8_Witness ==
    /\ Returned
    /\ db_name = "assessment"
    /\ RuleKeys \subseteq DOMAIN rule_checks
    /\ rule_checks["levels_sum_check"].total_rows = 3
    /\ rule_checks["levels_sum_check"].mismatch_rows = 1
    /\ rule_checks["levels_sum_check"].mismatch_percentage = 333333
    /\ rule_checks["ap_proficient_check"].total_rows = 0
    /\ rule_checks["ap_proficient_check"].mismatch_percentage = 0

NullLabel == <<"N", "U", "L", "L">>

NullLabelled(dist) == {i \in 1..Len(dist) : dist[i][1] = NullLabel}

RowsHolding(rows, c, v) == Cardinality({i \in 1..Len(rows) : rows[i][c] = v})

\* C10 as stated: the counts of a profile sum to total_rows, non_null_count and
\* null_count add up to it, the entries descend by count, and an entry
\* labelled 'NULL' has the count total_rows - non_null_count.
C10_AsStated ==
    Profiled =>
        LET dist == field_stats.values_distribution IN
        /\ SumCounts(dist, 1, Len(dist)) = field_stats.total_rows
        /\ field_stats.non_null_count + field_stats.null_count = field_stats.total_rows
        /\ field_stats.non_null_count >= 0
        /\ field_stats.non_null_count <= field_stats.total_rows
        /\ IsDescending(dist)
        /\ \A i \in NullLabelled(dist) :
              dist[i][2] = field_stats.total_rows - field_stats.non_null_count

\* C10 amended: for every profile without error, total_rows is the number of
\* rows of the table, the counts of the entries sum to it, there is one entry
\* for each distinct value, non_null_count + null_count = total_rows with
\* 0 <= non_null_count <= total_rows, the entries descend by count, and when
\* the column holds nulls an entry labelled 'NULL' has the count total_rows -
\* non_null_count; any other entry labelled 'NULL' is the bucket of the text
\* value 'NULL' and counts its rows.
C10_DistributionAccounting ==
    Profiled =>
        LET dist == field_stats.values_distribution
            rows == CurrentTable.rows
        IN  /\ field_stats.total_rows = Len(rows)
            /\ SumCounts(dist, 1, Len(dist)) = field_stats.total_rows
            /\ field_stats.distinct_count = Len(dist)
            /\ Len(dist) = DistinctValues(rows, field_name)
            /\ field_stats.non_null_count + field_stats.null_count = field_stats.total_rows
            /\ field_stats.non_null_count >= 0
            /\ field_stats.non_null_count <= field_stats.total_rows
            /\ IsDescending(dist)
            /\ field_stats.null_count > 0 =>
                  \E i \in NullLabelled(dist) : dist[i][2] = field_stats.null_count
            /\ Cardinality(NullLabelled(dist)) <= 2
            /\ \A i \in NullLabelled(dist) :
                  \/ /\ field_stats.null_count > 0
                     /\ dist[i][2] = field_stats.total_rows - field_stats.non_null_count
                  \/ dist[i][2] = RowsHolding(rows, field_name, Txt(NullLabel))
            /\ Cardinality(NullLabelled(dist)) =
                  (IF field_stats.null_count > 0 THEN 1 ELSE 0)
                  + (IF RowsHolding(rows, field_name, Txt(NullLabel)) > 0 THEN 1 ELSE 0)

\* C10 witness: a column holding nulls and the text 'NULL' was profiled; its
\* distribution has two entries labelled 'NULL'.
C10_Witness ==
    /\ Profiled
    /\ field_stats.null_count > 0
    /\ Cardinality(NullLabelled(field_stats.values_distribution)) = 2

\* The number a decimal text denotes, read as a whole and not digit by digit.
NumberOf(v) == CHOOSE n \in 0..(Pow10(Len(v.text)) - 1) : Num(n) = v

\* A level count as the rule is meant to take it: the placeholder as 0.
Counted(v) == IF v.text = <<"-">> THEN 0 ELSE NumberOf(v)

SevenLevels ==
    <<"LEVEL1_CNT", "LEVEL2_CNT", "LEVEL3_CNT", "LEVEL4_CNT", "LEVEL5_CNT",
      "LEVEL6_CNT", "LEVEL7_CNT">>

RECURSIVE CountedSum(_, _)
CountedSum(row, n) ==
    IF n = 0 THEN 0 ELSE CountedSum(row, n - 1) + Counted(row[SevenLevels[n]])

\* The tested count and the seven level counts of a row, as numbers.
Counts(row) ==
    <<NumberOf(row["TESTED_STUDENT_CNT"])>>
        \o [n \in 1..Len(SevenLevels) |-> Counted(row[SevenLevels[n]])]

\* The two rows of the documented example.
IsExample(rows) ==
    /\ Len(rows) = 2
    /\ Counts(rows[1]) = <<10, 2, 3, 5, 0, 0, 0, 0>>
    /\ Counts(rows[2]) = <<10, 1, 1, 1, 1, 1, 1, 1>>

HasPlaceholder(row) == \E n \in 1..Len(SevenLevels) : row[SevenLevels[n]] = Dash

FieldPercentUnit == 100 * Pow10(NULL_PCT_DIGITS)

\* The analysis stored for the column just analysed is that of its rows: the
\* values that are not null, and the groups of equal values, the nulls one group.
CountsOfColumn ==
    /\ CurrentAnalysis.non_null_count
          = Cardinality({i \in 1..Len(CurrentTable.rows) :
                           ~CurrentTable.rows[i][field_name].isNull})
    /\ CurrentAnalysis.distinct_count = DistinctValues(CurrentTable.rows, field_name)

\* C12 as stated, the quotient read to the two decimals reported: the
\* distinct_percentage of every stored analysis is distinct_count /
\* non_null_count x 100, and it is 0 exactly when non_null_count is 0.
C12_AsStated ==
    JustAnalyzed =>
        LET a == CurrentAnalysis IN
        /\ CountsOfColumn
        /\ a.non_null_count > 0 =>
              2 * Abs(a.distinct_percentage * a.non_null_count
                        - a.distinct_count * FieldPercentUnit) <= a.non_null_count
        /\ (a.distinct_percentage = 0) <=> (a.non_null_count = 0)

\* C12 amended: the distinct_percentage of every stored analysis is
\* distinct_count / non_null_count x 100 rounded to 2 decimal places (within
\* half of 0.01 of it), the denominator being the non-null rows of the column
\* and not the rows of the table; it is 0 when non_null_count is 0; with
\* non_null_count > 0 it is 0 when the quotient is below 0.005 percent and not
\* 0 when the quotient is above it.
C12_DistinctPercentage ==
    JustAnalyzed =>
        LET a == CurrentAnalysis IN
        /\ CountsOfColumn
        /\ a.distinct_percentage >= 0
        /\ a.non_null_count = 0 => a.distinct_percentage = 0
        /\ a.non_null_count > 0 =>
              /\ 2 * Abs(a.distinct_percentage * a.non_null_count
                           - a.distinct_count * FieldPercentUnit) <= a.non_null_count
              /\ (2 * a.distinct_count * FieldPercentUnit < a.non_null_count)
                    => a.distinct_percentage = 0
              /\ (2 * a.distinct_count * FieldPercentUnit > a.non_null_count)
                    => a.distinct_percentage > 0

\* C12 witness: both columns of a table of 20,001 rows were analysed; one value
\* fills the first, whose percentage is 0 with every row non-null, and the
\* second holds only nulls, whose percentage is 0 by the guard.
C12_Witness ==
    /\ JustAnalyzed
    /\ field_name = "REMARK"
    /\ CurrentAnalysis.non_null_count = 0
    /\ CurrentAnalysis.distinct_count = 1
    /\ CurrentAnalysis.distinct_percentage = 0
    /\ "NYC_IND" \in DOMAIN table_info.field_analysis
    /\ table_info.field_analysis["NYC_IND"].non_null_count = HugeRows
    /\ table_info.field_analysis["NYC_IND"].distinct_count = 1
    /\ table_info.field_analysis["NYC_IND"].distinct_percentage = 0

====
